---- MODULE Spec2Model ----
(***************************************************************************)
(* Interface resolution of pybootd (pybootd/util.py): the IP codec         *)
(* (iptoint, inttoip), the import-time probe for netifaces, the two        *)
(* enumerators (_netifaces_get_iface_config, _iproute_get_iface_config)    *)
(* and the entry point get_iface_config.                                   *)
(*                                                                         *)
(* Representation.                                                         *)
(*  - A Python str is the sequence of its characters (one-character        *)
(*    strings).  None and str are told apart by the record PyVal.          *)
(*  - A Python int that holds an address is the sequence of its bits, most *)
(*    significant first (addresses exceed the 31-bit integers of TLC).     *)
(*    Small ints (one byte, a prefix length, a decimal field) are integers.*)
(*  - The text of `ip address show` is a sequence of lines, a line the     *)
(*    sequence of its whitespace-separated tokens (what line.strip() and   *)
(*    l.split() leave), a blank line the empty sequence.                   *)
(***************************************************************************)
EXTENDS Integers, Sequences, FiniteSets, TLC

VARIABLES platform, installed, modstate, netifaces, call, both, codec

vars == <<platform, installed, modstate, netifaces, call, both, codec>>

(***************************************************************************)
(* Bounds of the model.                                                    *)
(***************************************************************************)
\* interfaces in one netifaces table
MaxIfaces == 2
\* address entries in one netifaces table, over all its interfaces
MaxEntries == 2
\* lines in one output of `ip address show`
MaxLines == 3

(***************************************************************************)
(* Python values.                                                          *)
(***************************************************************************)
None == [isNone |-> TRUE, s |-> <<>>]

Str(s) == [isNone |-> FALSE, s |-> s]

\* bool(value) of a str or None: `not address` at util.py:244
Truthy(v) == ~v.isNone /\ v.s # <<>>

(***************************************************************************)
(* Decimal fields of strings.                                              *)
(***************************************************************************)
Digits == <<"0", "1", "2", "3", "4", "5", "6", "7", "8", "9">>

IsDigit(c) == \E i \in 1..Len(Digits) : Digits[i] = c

DigitVal(c) == (CHOOSE i \in 1..Len(Digits) : Digits[i] = c) - 1

\* a non-empty run of decimal digits short enough for its value to be computed
AllDigits(s) == /\ Len(s) \in 1..9
                /\ \A i \in 1..Len(s) : IsDigit(s[i])

\* the value of the first k digits of s
RECURSIVE DecPrefix(_, _)
DecPrefix(s, k) ==
    IF k = 0 THEN 0 ELSE Len(Digits) * DecPrefix(s, k - 1) + DigitVal(s[k])

DecValue(s) == DecPrefix(s, Len(s))

\* "%d" % n, n >= 0
RECURSIVE DecString(_)
DecString(n) ==
    IF n < Len(Digits) THEN <<Digits[n + 1]>>
    ELSE DecString(n \div Len(Digits)) \o <<Digits[(n % Len(Digits)) + 1]>>

\* index of the first occurrence of character c in s, 0 when there is none
RECURSIVE IndexFrom(_, _, _)
IndexFrom(s, c, i) ==
    IF i > Len(s) THEN 0 ELSE IF s[i] = c THEN i ELSE IndexFrom(s, c, i + 1)

IndexOf(s, c) == IndexFrom(s, c, 1)

\* s.split(c)
RECURSIVE Split(_, _)
Split(s, c) ==
    LET i == IndexOf(s, c)
    IN  IF i = 0 THEN <<s>>
        ELSE <<SubSeq(s, 1, i - 1)>> \o Split(SubSeq(s, i + 1, Len(s)), c)

\* s.split(c, 1)
SplitOnce(s, c) ==
    LET i == IndexOf(s, c)
    IN  IF i = 0 THEN <<s>>
        ELSE <<SubSeq(s, 1, i - 1), SubSeq(s, i + 1, Len(s))>>

\* c.join(parts)
RECURSIVE Join(_, _)
Join(parts, c) ==
    IF Len(parts) = 0 THEN <<>>
    ELSE IF Len(parts) = 1 THEN parts[1]
    ELSE parts[1] \o <<c>> \o Join(Tail(parts), c)

(***************************************************************************)
(* Integers as bit sequences, most significant bit first.                  *)
(***************************************************************************)
Zeros(n) == [i \in 1..n |-> 0]

Ones(n) == [i \in 1..n |-> 1]

\* the bits of a small integer n, 0 <= n < 2^w, on w bits
RECURSIVE BitsOf(_, _)
BitsOf(n, w) ==
    IF w = 0 THEN <<>> ELSE BitsOf(n \div 2, w - 1) \o <<n % 2>>

\* the value of bits i..j of b (a short run)
RECURSIVE ValueOfBits(_, _, _)
ValueOfBits(b, i, j) ==
    IF j < i THEN 0 ELSE 2 * ValueOfBits(b, i, j - 1) + b[j]

\* the bit sequence without its leading zeros: equal ints have equal Norm
RECURSIVE Norm(_)
Norm(b) == IF b # <<>> /\ b[1] = 0 THEN Norm(Tail(b)) ELSE b

\* b widened to w bits (w >= Len(b))
Pad(b, w) == IF Len(b) = w THEN b ELSE Zeros(w - Len(b)) \o b

WidthOf(a, b) == IF Len(a) > Len(b) THEN Len(a) ELSE Len(b)

\* a & b
And(a, b) ==
    LET w == WidthOf(a, b)
        pa == Pad(a, w)
        pb == Pad(b, w)
    IN  [i \in 1..w |-> pa[i] * pb[i]]

\* a ^ b
Xor(a, b) ==
    LET w == WidthOf(a, b)
        pa == Pad(a, w)
        pb == Pad(b, w)
    IN  [i \in 1..w |-> (pa[i] + pb[i]) % 2]

\* `not delta` for an int
IsZero(b) == \A i \in 1..Len(b) : b[i] = 0

\* x << n, n >= 0
ShiftLeft(b, n) == b \o Zeros(n)

(***************************************************************************)
(* The IP codec, util.py:180-185.                                          *)
(***************************************************************************)
\* bits in a byte and bytes packed by format '!I'
ByteBits == 8

PackBytes == 4

\* struct.pack('!I', ipval) raises struct.error outside [0, 2^32)
PackRaises(ipval) ==
    \E i \in 1..(Len(ipval) - PackBytes * ByteBits) : ipval[i] = 1

\* struct.pack('!I', ipval): four bytes, the most significant first
Pack(ipval) ==
    LET n == PackBytes * ByteBits
        w == IF Len(ipval) > n
             THEN SubSeq(ipval, Len(ipval) - n + 1, Len(ipval))
             ELSE Pad(ipval, n)
    IN  [k \in 1..PackBytes |->
            ValueOfBits(w, (k - 1) * ByteBits + 1, k * ByteBits)]

\* struct.unpack('<I', packed)[0]: the bytes read in the opposite order
UnpackLittleEndian(packed) ==
    BitsOf(packed[4], ByteBits) \o BitsOf(packed[3], ByteBits)
        \o BitsOf(packed[2], ByteBits) \o BitsOf(packed[1], ByteBits)

\* struct.unpack('!I', packed)[0]
Unpack(packed) ==
    BitsOf(packed[1], ByteBits) \o BitsOf(packed[2], ByteBits)
        \o BitsOf(packed[3], ByteBits) \o BitsOf(packed[4], ByteBits)

\* socket.inet_ntoa(packed)
inet_ntoa(packed) ==
    Join([k \in 1..Len(packed) |-> DecString(packed[k])], ".")

\* largest value of the last field of a 1- to 4-field address is 2^(8k) - 1,
\* k the number of bytes the field fills
RECURSIVE Pow2(_)
Pow2(n) == IF n = 0 THEN 1 ELSE 2 * Pow2(n - 1)

\* socket.inet_aton(ipstr) accepts "a.b.c.d", "a.b.c", "a.b" (the last field
\* fills the remaining bytes); decimal fields only are modelled, and the
\* one-field form (a 32-bit number) is left out
AtonOk(ipstr) ==
    LET f == Split(ipstr, ".")
        n == Len(f)
    IN  /\ n \in 2..PackBytes
        /\ \A k \in 1..n : AllDigits(f[k])
        /\ \A k \in 1..(n - 1) : DecValue(f[k]) < Pow2(ByteBits)
        /\ DecValue(f[n]) < Pow2(ByteBits * (PackBytes - n + 1))

inet_aton(ipstr) ==
    LET f == Split(ipstr, ".")
        n == Len(f)
        rest == BitsOf(DecValue(f[n]), ByteBits * (PackBytes - n + 1))
    IN  [k \in 1..PackBytes |->
            IF k < n THEN DecValue(f[k])
            ELSE ValueOfBits(rest, (k - n) * ByteBits + 1,
                             (k - n + 1) * ByteBits)]

\* iptoint raises socket.error on a string inet_aton rejects
iptoint_raises(ipstr) == ~AtonOk(ipstr)

\* util.py:180
iptoint(ipstr) == Unpack(inet_aton(ipstr))

\* util.py:184
inttoip(ipval) == inet_ntoa(Pack(ipval))

(***************************************************************************)
(* Results of a call.                                                      *)
(***************************************************************************)
NoConfig == [ifname |-> None, server |-> None, net |-> None, mask |-> None]

\* `return config`
Ret(config) == [kind |-> "return", exc |-> "", found |-> TRUE, config |-> config]

\* `return None`
RetNone == [kind |-> "return", exc |-> "", found |-> FALSE, config |-> NoConfig]

\* an exception leaving the function
Raise(e) == [kind |-> "raise", exc |-> e, found |-> FALSE, config |-> NoConfig]

\* the inner loop ended without a return: the outer loop goes on
Fallthrough == [kind |-> "next", exc |-> "", found |-> FALSE, config |-> NoConfig]

\* the dict built at util.py:206-209 and 236-239 with `net` taken from the
\* interface address instead of the masked address
ConfigNetUnmasked(iface, addr, ip, mask) ==
    [ifname |-> iface, server |-> Str(inttoip(addr)),
     net |-> Str(inttoip(addr)), mask |-> Str(inttoip(mask))]

\* the dict built at util.py:206-209 and 236-239
Config(iface, addr, ip, mask) ==
    [ifname |-> iface, server |-> Str(inttoip(addr)),
     net |-> Str(inttoip(ip)), mask |-> Str(inttoip(mask))]

(***************************************************************************)
(* _netifaces_get_iface_config, util.py:188-211.  `table` is what          *)
(* netifaces.interfaces() and netifaces.ifaddresses(iface) answer: a       *)
(* sequence of [name, hasInet, inet], inet the AF_INET list of             *)
(* [addr, netmask] with None for an absent key.                            *)
(***************************************************************************)
\* the inner loop with a malformed addr or netmask passed over
RECURSIVE ScanInetSkipMalformed(_, _, _, _)
ScanInetSkipMalformed(pool, iface, inet, k) ==
    IF k > Len(inet) THEN Fallthrough
    ELSE LET addr_s == inet[k].addr
             netmask_s == inet[k].netmask
         IN  IF addr_s.isNone \/ netmask_s.isNone
                 \/ iptoint_raises(addr_s.s) \/ iptoint_raises(netmask_s.s)
             THEN ScanInetSkipMalformed(pool, iface, inet, k + 1)
             ELSE LET addr == iptoint(addr_s.s)
                      mask == iptoint(netmask_s.s)
                      ip == And(addr, mask)
                      ip_client == And(pool, mask)
                      delta == Xor(ip, ip_client)
                  IN  IF IsZero(delta)
                      THEN Ret(Config(Str(iface), addr, ip, mask))
                      ELSE ScanInetSkipMalformed(pool, iface, inet, k + 1)

\* the inner loop returning the last match of the list, not the first
RECURSIVE ScanInetLastMatch(_, _, _, _)
ScanInetLastMatch(pool, iface, inet, k) ==
    IF k > Len(inet) THEN Fallthrough
    ELSE LET addr_s == inet[k].addr
             netmask_s == inet[k].netmask
             later == ScanInetLastMatch(pool, iface, inet, k + 1)
         IN  IF addr_s.isNone \/ netmask_s.isNone THEN later
             ELSE IF iptoint_raises(addr_s.s) THEN Raise("socket.error")
             ELSE IF iptoint_raises(netmask_s.s) THEN Raise("socket.error")
             ELSE LET addr == iptoint(addr_s.s)
                      mask == iptoint(netmask_s.s)
                      ip == And(addr, mask)
                      ip_client == And(pool, mask)
                      delta == Xor(ip, ip_client)
                  IN  IF IsZero(delta) /\ later.kind = "next"
                      THEN Ret(Config(Str(iface), addr, ip, mask))
                      ELSE later

\* util.py:194-210, from entry k of the AF_INET list of one interface
RECURSIVE ScanInet(_, _, _, _)
ScanInet(pool, iface, inet, k) ==
    IF k > Len(inet) THEN Fallthrough
    ELSE LET addr_s == inet[k].addr
             netmask_s == inet[k].netmask
         IN  IF addr_s.isNone \/ netmask_s.isNone
             THEN ScanInet(pool, iface, inet, k + 1)
             ELSE IF iptoint_raises(addr_s.s) THEN Raise("socket.error")
             ELSE IF iptoint_raises(netmask_s.s) THEN Raise("socket.error")
             ELSE LET addr == iptoint(addr_s.s)
                      mask == iptoint(netmask_s.s)
                      ip == And(addr, mask)
                      ip_client == And(pool, mask)
                      delta == Xor(ip, ip_client)
                  IN  IF IsZero(delta)
                      THEN Ret(Config(Str(iface), addr, ip, mask))
                      ELSE ScanInet(pool, iface, inet, k + 1)

\* util.py:190-211, from interface i of the table
RECURSIVE ScanIfaces(_, _, _)
ScanIfaces(pool, table, i) ==
    IF i > Len(table) THEN RetNone
    ELSE IF ~table[i].hasInet THEN ScanIfaces(pool, table, i + 1)
    ELSE LET r == ScanInet(pool, table[i].name, table[i].inet, 1)
         IN  IF r.kind = "next" THEN ScanIfaces(pool, table, i + 1) ELSE r

\* util.py:188-211: the result, and the queries made of the operating system
netifaces_get_iface_config(address, table) ==
    IF iptoint_raises(address)
    THEN [out |-> Raise("socket.error"), os |-> <<>>]
    ELSE [out |-> ScanIfaces(iptoint(address), table, 1),
          os |-> <<"netifaces.interfaces">>]

(***************************************************************************)
(* _iproute_get_iface_config, util.py:214-240.  `output` is what           *)
(* subprocess.check_output answers: [status, type, lines], status "failed" *)
(* for a command that cannot be run or exits non-zero, type "str" under    *)
(* Python 2 and "bytes" under Python 3.                                    *)
(***************************************************************************)
\* the token 'inet' of util.py:227
InetWord == <<"i", "n", "e", "t">>

\* s.endswith(c)
EndsWith(s, c) == Len(s) > 0 /\ s[Len(s)] = c

\* s[:-1]
DropLast(s) == SubSeq(s, 1, Len(s) - 1)

\* int(s) raises ValueError unless s is an optionally signed run of digits
IntOk(s) ==
    \/ AllDigits(s)
    \/ Len(s) > 1 /\ s[1] \in {"-", "+"} /\ AllDigits(Tail(s))

\* int(s)
IntOf(s) ==
    IF s[1] = "-" THEN 0 - DecValue(Tail(s))
    ELSE IF s[1] = "+" THEN DecValue(Tail(s))
    ELSE DecValue(s)

\* x - 1 for x > 0
RECURSIVE Minus1(_)
Minus1(b) ==
    IF b[Len(b)] = 1 THEN SubSeq(b, 1, Len(b) - 1) \o <<0>>
    ELSE Minus1(SubSeq(b, 1, Len(b) - 1)) \o <<1>>

\* address bits: the 32 of util.py:231
AddrBits == 32

\* util.py:231 raises ValueError (negative shift count) outside [0, 32]
MaskRaises(masklen) == masklen < 0 \/ AddrBits - masklen < 0

\* util.py:231: ((1 << masklen) - 1) << (32 - masklen)
MaskOf(masklen) ==
    ShiftLeft(Minus1(ShiftLeft(<<1>>, masklen)), AddrBits - masklen)

\* the loop with an `inet` line that does not parse passed over
RECURSIVE ScanLinesSkipMalformed(_, _, _, _)
ScanLinesSkipMalformed(pool, lines, k, iface) ==
    IF k > Len(lines) THEN RetNone
    ELSE LET items == lines[k]
         IN  IF items = <<>> THEN ScanLinesSkipMalformed(pool, lines, k + 1, iface)
             ELSE IF EndsWith(items[1], ":")
             THEN IF Len(items) < 2 THEN Raise("IndexError")
                  ELSE ScanLinesSkipMalformed(pool, lines, k + 1,
                                              Str(DropLast(items[2])))
             ELSE IF items[1] = InetWord
             THEN IF \/ Len(items) < 2
                     \/ Len(SplitOnce(items[2], "/")) # 2
                     \/ iptoint_raises(SplitOnce(items[2], "/")[1])
                     \/ ~IntOk(SplitOnce(items[2], "/")[2])
                     \/ MaskRaises(IntOf(SplitOnce(items[2], "/")[2]))
                  THEN ScanLinesSkipMalformed(pool, lines, k + 1, iface)
                  ELSE LET addr == iptoint(SplitOnce(items[2], "/")[1])
                           mask == MaskOf(IntOf(SplitOnce(items[2], "/")[2]))
                           ip == And(addr, mask)
                           ip_client == And(pool, mask)
                           delta == Xor(ip, ip_client)
                       IN  IF IsZero(delta)
                           THEN Ret(Config(iface, addr, ip, mask))
                           ELSE ScanLinesSkipMalformed(pool, lines, k + 1, iface)
             ELSE ScanLinesSkipMalformed(pool, lines, k + 1, iface)

\* util.py:221-240, from line k, with the current interface name
RECURSIVE ScanLines(_, _, _, _)
ScanLines(pool, lines, k, iface) ==
    IF k > Len(lines) THEN RetNone
    ELSE LET items == lines[k]
         IN  IF items = <<>> THEN ScanLines(pool, lines, k + 1, iface)
             ELSE IF EndsWith(items[1], ":")
             THEN IF Len(items) < 2 THEN Raise("IndexError")
                  ELSE ScanLines(pool, lines, k + 1, Str(DropLast(items[2])))
             ELSE IF items[1] = InetWord
             THEN IF Len(items) < 2 THEN Raise("IndexError")
                  ELSE LET parts == SplitOnce(items[2], "/")
                       IN  IF Len(parts) # 2 THEN Raise("ValueError")
                           ELSE LET saddr == parts[1]
                                    smasklen == parts[2]
                                IN  IF iptoint_raises(saddr) THEN Raise("socket.error")
                                    ELSE IF ~IntOk(smasklen) THEN Raise("ValueError")
                                    ELSE IF MaskRaises(IntOf(smasklen)) THEN Raise("ValueError")
                                    ELSE LET addr == iptoint(saddr)
                                             masklen == IntOf(smasklen)
                                             mask == MaskOf(masklen)
                                             ip == And(addr, mask)
                                             ip_client == And(pool, mask)
                                             delta == Xor(ip, ip_client)
                                         IN  IF IsZero(delta)
                                             THEN Ret(Config(iface, addr, ip, mask))
                                             ELSE ScanLines(pool, lines, k + 1, iface)
             ELSE ScanLines(pool, lines, k + 1, iface)

\* util.py:214-240: the result, and the queries made of the operating system.
\* bytes.rstrip("\n"), a str argument to a bytes method, raises TypeError.
iproute_get_iface_config(address, output) ==
    IF iptoint_raises(address)
    THEN [out |-> Raise("socket.error"), os |-> <<>>]
    ELSE IF output.status = "failed"
    THEN [out |-> Raise("CalledProcessError"), os |-> <<"subprocess">>]
    ELSE IF output.type = "bytes"
    THEN [out |-> Raise("TypeError"), os |-> <<"subprocess">>]
    ELSE [out |-> ScanLines(iptoint(address), output.lines, 1, None),
          os |-> <<"subprocess">>]

(***************************************************************************)
(* The import-time probe, util.py:31-37, and get_iface_config,             *)
(* util.py:243-248.                                                        *)
(***************************************************************************)
\* hosts: os.uname()[0] where there is one; Windows has no os.uname
Platforms == {"Linux", "Darwin", "Windows"}

\* the str check_output answers under Python 2, the bytes under Python 3
OutputTypes == {"str", "bytes"}

HasUname(p) == p # "Windows"

\* os.uname()[0].lower()
UnameLower(p) == IF p = "Darwin" THEN "darwin" ELSE "linux"

\* the probe without the Darwin branch of util.py:35-36
ImportModuleNoDarwinCheck(p, inst) ==
    IF inst THEN [modstate |-> "loaded", netifaces |-> "module"]
    ELSE IF ~HasUname(p)
    THEN [modstate |-> "AttributeError", netifaces |-> "unbound"]
    ELSE [modstate |-> "loaded", netifaces |-> "None"]

\* util.py:31-37: how loading the module ends, and what `netifaces` is bound to
ImportModuleResult(p, inst) ==
    IF inst THEN [modstate |-> "loaded", netifaces |-> "module"]
    ELSE IF ~HasUname(p)
    THEN [modstate |-> "AttributeError", netifaces |-> "unbound"]
    ELSE IF UnameLower(p) = "darwin"
    THEN [modstate |-> "ImportError", netifaces |-> "unbound"]
    ELSE [modstate |-> "loaded", netifaces |-> "None"]

NoTable == <<>>

NoOutput == [status |-> "ok", type |-> "str", lines |-> <<>>]

\* get_iface_config without the test of util.py:244
get_iface_config_no_empty_check(address, nf, env) ==
    IF nf = "None"
    THEN LET r == iproute_get_iface_config(address.s, env.output)
         IN  [out |-> r.out, invoked |-> <<"_iproute_get_iface_config">>, os |-> r.os]
    ELSE LET r == netifaces_get_iface_config(address.s, env.table)
         IN  [out |-> r.out, invoked |-> <<"_netifaces_get_iface_config">>, os |-> r.os]

\* get_iface_config trying the textual enumerator when the structured one
\* finds nothing
get_iface_config_fallback(address, nf, env) ==
    IF ~Truthy(address)
    THEN [out |-> RetNone, invoked |-> <<>>, os |-> <<>>]
    ELSE IF nf = "None"
    THEN LET r == iproute_get_iface_config(address.s, env.output)
         IN  [out |-> r.out, invoked |-> <<"_iproute_get_iface_config">>, os |-> r.os]
    ELSE LET r == netifaces_get_iface_config(address.s, env.table)
             q == iproute_get_iface_config(address.s, env.output)
         IN  IF r.out.kind = "return" /\ ~r.out.found
             THEN [out |-> q.out,
                   invoked |-> <<"_netifaces_get_iface_config",
                                 "_iproute_get_iface_config">>,
                   os |-> r.os \o q.os]
             ELSE [out |-> r.out, invoked |-> <<"_netifaces_get_iface_config">>,
                   os |-> r.os]

\* util.py:243-248: the result, the enumerators entered, the queries made.
\* nf is the module global `netifaces`, env what the host answers.
get_iface_config(address, nf, env) ==
    IF ~Truthy(address)
    THEN [out |-> RetNone, invoked |-> <<>>, os |-> <<>>]
    ELSE IF nf = "None"
    THEN LET r == iproute_get_iface_config(address.s, env.output)
         IN  [out |-> r.out, invoked |-> <<"_iproute_get_iface_config">>, os |-> r.os]
    ELSE LET r == netifaces_get_iface_config(address.s, env.table)
         IN  [out |-> r.out, invoked |-> <<"_netifaces_get_iface_config">>, os |-> r.os]

(***************************************************************************)
(* The inputs drawn.                                                       *)
(***************************************************************************)
\* "a.b.c.d" written from its fields
Dotted(q) == Join([k \in 1..Len(q) |-> DecString(q[k])], ".")

A1 == Dotted(<<192, 168, 1, 10>>)

A2 == Dotted(<<10, 1, 0, 1>>)

BadAddr == Dotted(<<10, 1, 0, 256>>)

M24 == Dotted(<<255, 255, 255, 0>>)

M8 == Dotted(<<255, 0, 0, 0>>)

BadMask == Dotted(<<255, 255, 255>>) \o <<".">>

\* targets: 192.168.1.50, and 10.0.0.5 in the two-field form inet_aton accepts
T1 == Dotted(<<192, 168, 1, 50>>)

T2 == Dotted(<<10, 5>>)

BadTarget == Dotted(<<10, 0, 0, 256>>)

Addresses == {None, Str(<<>>), Str(T1), Str(T2), Str(BadTarget)}

\* AF_INET entries as netifaces gives them; None is an absent key
EntryPool ==
    {[addr |-> Str(A1), netmask |-> Str(M24)],
     [addr |-> Str(A1), netmask |-> Str(M8)],
     [addr |-> Str(A2), netmask |-> Str(M8)],
     [addr |-> None, netmask |-> Str(M24)],
     [addr |-> Str(A1), netmask |-> None],
     [addr |-> Str(BadAddr), netmask |-> Str(M24)],
     [addr |-> Str(A1), netmask |-> Str(BadMask)]}

\* interface names by position: eth0, eth1, ...
IfName(i) == <<"e", "t", "h">> \o DecString(i - 1)

SeqsUpTo(S, n) == UNION {[1..k -> S] : k \in 0..n}

\* the interfaces position i may hold, with at most n entries: one without
\* the AF_INET key, or one whose AF_INET list holds at least one entry
IfacesAt(pool, i, n) ==
    {[name |-> IfName(i), hasInet |-> FALSE, inet |-> <<>>]}
        \cup {[name |-> IfName(i), hasInet |-> TRUE, inet |-> l] :
                 l \in SeqsUpTo(pool, n) \ {<<>>}}

\* the tables of interfaces i..MaxIfaces with at most n entries in all
RECURSIVE TablesFrom(_, _, _)
TablesFrom(pool, i, n) ==
    {<<>>} \cup
    (IF i > MaxIfaces THEN {}
     ELSE UNION {{<<f>> \o rest : rest \in TablesFrom(pool, i + 1, n - Len(f.inet))} :
                    f \in IfacesAt(pool, i, n)})

HostTables == TablesFrom(EntryPool, 1, MaxEntries)

\* tokens of `ip address show`
Word2 == <<"2", ":">>

Word3 == <<"3", ":">>

WordEth0 == <<"e", "t", "h", "0", ":">>

WordLo == <<"l", "o", ":">>

WordInet6 == <<"i", "n", "e", "t", "6">>

WordV6 == <<":", ":", "1", "/", "1", "2", "8">>

WordPeer == <<"p", "e", "e", "r">>

Cidr(addr, len) == addr \o <<"/">> \o DecString(len)

\* lines that parse: blank, another stanza line, headers, inet lines
GoodLines ==
    {<<>>,
     <<WordInet6, WordV6>>,
     <<Word2, WordEth0>>,
     <<Word3, WordLo>>,
     <<InetWord, Cidr(A1, 24)>>,
     <<InetWord, Cidr(A2, 8)>>,
     <<InetWord, Cidr(A2, 0)>>}

\* inet lines that do not: without a prefix (a peer address follows), with
\* a prefix out of range, with a bad address
BadLines ==
    {<<InetWord, A2, WordPeer>>,
     <<InetWord, Cidr(A2, 33)>>,
     <<InetWord, Cidr(BadAddr, 8)>>}

LinePool == GoodLines \cup BadLines

IpOutputs ==
    {[status |-> "failed", type |-> "str", lines |-> <<>>]}
        \cup {[status |-> "ok", type |-> ty, lines |-> l] :
                 ty \in OutputTypes, l \in SeqsUpTo(LinePool, MaxLines)}

\* what the host answers to the query the loaded module can make
Answers(nf) ==
    IF nf = "None"
    THEN {[table |-> NoTable, output |-> o] : o \in IpOutputs}
    ELSE {[table |-> t, output |-> NoOutput] : t \in HostTables}

NoEnv == [table |-> NoTable, output |-> NoOutput]

(***************************************************************************)
(* The program: a host loads the module, then calls get_iface_config.      *)
(* Nothing is kept from one call to the next (the module has no state but  *)
(* `netifaces`), so a call is observed until its result is consumed.       *)
(***************************************************************************)
Idle ==
    [fn |-> "none", address |-> None, env |-> NoEnv, out |-> RetNone,
     invoked |-> <<>>, os |-> <<>>]

IdleBoth ==
    [stage |-> "idle", address |-> <<>>, table |-> NoTable, type |-> "str",
     viaNetifaces |-> RetNone, viaIproute |-> RetNone]

IdleCodec == [stage |-> "idle", ipval |-> <<>>, ipstr |-> <<>>, back |-> <<>>]

\* before the module is loaded nothing of the host has been looked at
Init ==
    /\ platform = "unread"
    /\ installed = FALSE
    /\ modstate = "unloaded"
    /\ netifaces = "unbound"
    /\ call = Idle
    /\ both = IdleBoth
    /\ codec = IdleCodec

\* `import pybootd.util`: util.py:31-37.  The host has netifaces or not; its
\* platform is looked at only by os.uname() in the except branch.
ImportModule ==
    /\ modstate = "unloaded"
    /\ \E inst \in BOOLEAN, p \in Platforms :
          LET r == ImportModuleResult(p, inst)
          IN  /\ installed' = inst
              /\ platform' = IF inst THEN "unread" ELSE p
              /\ modstate' = r.modstate
              /\ netifaces' = r.netifaces
    /\ UNCHANGED <<call, both, codec>>

\* the call gets as far as asking the host: past util.py:244 and the
\* iptoint(address) of util.py:189 or 215
ReachesQuery(address) == Truthy(address) /\ ~iptoint_raises(address.s)

\* a call of get_iface_config(address) on the loaded module: util.py:243-248.
\* The host's answer is drawn where the call asks for it.
GetIfaceConfig ==
    /\ modstate = "loaded"
    /\ call.fn = "none"
    /\ \E address \in Addresses :
       \E env \in IF ReachesQuery(address) THEN Answers(netifaces) ELSE {NoEnv} :
          LET r == get_iface_config(address, netifaces, env)
          IN  call' = [fn |-> "get_iface_config", address |-> address,
                       env |-> IF r.os = <<>> THEN NoEnv ELSE env,
                       out |-> r.out, invoked |-> r.invoked, os |-> r.os]
    /\ UNCHANGED <<platform, installed, modstate, netifaces, both, codec>>

\* the caller has taken the result
Consume ==
    /\ call.fn # "none"
    /\ call' = Idle
    /\ UNCHANGED <<platform, installed, modstate, netifaces, both, codec>>

Next == ImportModule \/ GetIfaceConfig \/ Consume

Spec == Init /\ [][Next]_vars

(***************************************************************************)
(* The two enumerators on one host: the table netifaces gives, and the     *)
(* same interfaces and addresses as `ip address show` prints them.         *)
(***************************************************************************)
M0 == Dotted(<<0, 0, 0, 0>>)

M32 == Dotted(<<255, 255, 255, 255>>)

\* entries with an address and a contiguous netmask
PlainPool ==
    {[addr |-> Str(A1), netmask |-> Str(M24)],
     [addr |-> Str(A1), netmask |-> Str(M8)],
     [addr |-> Str(A2), netmask |-> Str(M8)],
     [addr |-> Str(A2), netmask |-> Str(M0)],
     [addr |-> Str(A1), netmask |-> Str(M32)]}

PlainTables == TablesFrom(PlainPool, 1, MaxEntries)

\* the prefix length of a contiguous mask: its leading one bits
RECURSIVE PrefixLen(_)
PrefixLen(b) == IF b # <<>> /\ b[1] = 1 THEN 1 + PrefixLen(Tail(b)) ELSE 0

\* "N: name:" and one "inet addr/len" line per entry, from interface i on
RECURSIVE RenderFrom(_, _)
RenderFrom(table, i) ==
    IF i > Len(table) THEN <<>>
    ELSE <<<<DecString(i) \o <<":">>, table[i].name \o <<":">>>>>>
         \o [k \in 1..Len(table[i].inet) |->
                <<InetWord, Cidr(table[i].inet[k].addr.s,
                                 PrefixLen(iptoint(table[i].inet[k].netmask.s)))>>]
         \o RenderFrom(table, i + 1)

Render(table, ty) == [status |-> "ok", type |-> ty, lines |-> RenderFrom(table, 1)]

InitEquiv ==
    /\ platform = "unread"
    /\ installed = TRUE
    /\ modstate = "loaded"
    /\ netifaces = "module"
    /\ call = Idle
    /\ both = IdleBoth
    /\ codec = IdleCodec

\* _netifaces_get_iface_config(address) on a table
CallNetifaces ==
    /\ both.stage = "idle"
    /\ \E address \in {T1, T2, BadTarget}, table \in PlainTables :
          both' = [stage |-> "first", address |-> address, table |-> table,
                   type |-> "str",
                   viaNetifaces |-> netifaces_get_iface_config(address, table).out,
                   viaIproute |-> RetNone]
    /\ UNCHANGED <<platform, installed, modstate, netifaces, call, codec>>

\* _iproute_get_iface_config(address) on the same host
CallIproute ==
    /\ both.stage = "first"
    /\ \E ty \in OutputTypes :
          both' = [both EXCEPT
                     !.stage = "second",
                     !.type = ty,
                     !.viaIproute =
                         iproute_get_iface_config(both.address,
                                                  Render(both.table, ty)).out]
    /\ UNCHANGED <<platform, installed, modstate, netifaces, call, codec>>

NextEquiv == CallNetifaces \/ CallIproute

SpecEquiv == InitEquiv /\ [][NextEquiv]_vars

(***************************************************************************)
(* The codec alone: inttoip, then iptoint of its result.                   *)
(***************************************************************************)
BytePatterns ==
    {Zeros(ByteBits), Ones(ByteBits),
     <<1>> \o Zeros(ByteBits - 1), Zeros(ByteBits - 1) \o <<1>>}

\* ints of [0, 2^32), and 2^32
CodecSamples ==
    {a \o b \o c \o d : a \in BytePatterns, b \in BytePatterns,
                        c \in BytePatterns, d \in BytePatterns}
        \cup {<<>>, <<1, 0, 1>>, <<1>> \o Zeros(PackBytes * ByteBits)}

InitCodec ==
    /\ platform = "unread"
    /\ installed = TRUE
    /\ modstate = "loaded"
    /\ netifaces = "module"
    /\ call = Idle
    /\ both = IdleBoth
    /\ codec \in {[stage |-> "int", ipval |-> x, ipstr |-> <<>>, back |-> <<>>] :
                     x \in CodecSamples}

\* inttoip(ipval): util.py:184-185
Inttoip ==
    /\ codec.stage = "int"
    /\ codec' = IF PackRaises(codec.ipval)
                THEN [codec EXCEPT !.stage = "struct.error"]
                ELSE [codec EXCEPT !.stage = "str", !.ipstr = inttoip(codec.ipval)]
    /\ UNCHANGED <<platform, installed, modstate, netifaces, call, both>>

\* iptoint(ipstr): util.py:180-181
Iptoint ==
    /\ codec.stage = "str"
    /\ codec' = IF iptoint_raises(codec.ipstr)
                THEN [codec EXCEPT !.stage = "socket.error"]
                ELSE [codec EXCEPT !.stage = "back", !.back = iptoint(codec.ipstr)]
    /\ UNCHANGED <<platform, installed, modstate, netifaces, call, both>>

NextCodec == Inttoip \/ Iptoint

SpecCodec == InitCodec /\ [][NextCodec]_vars

(***************************************************************************)
(* What the claims speak of, stated apart from the code above.             *)
(***************************************************************************)
Called == call.fn = "get_iface_config"

ViaNetifaces == Called /\ call.invoked = <<"_netifaces_get_iface_config">>

ViaIproute == Called /\ call.invoked = <<"_iproute_get_iface_config">>

\* the enumerator got as far as asking the host
Queried == Called /\ call.os # <<>>

SameInt(a, b) == LET w == WidthOf(a, b) IN Pad(a, w) = Pad(b, w)

\* the least element of a non-empty set of indices
First(S) == CHOOSE k \in S : \A j \in S : k <= j

\* (target & mask) == (candidate & mask)
sameSubnet(target, candidate, mask) ==
    SameInt(And(target, mask), And(candidate, mask))

\* the (interface, address, netmask) entries of a table, in interface order
\* and then address-list order
RECURSIVE Flat(_, _)
Flat(table, i) ==
    IF i > Len(table) THEN <<>>
    ELSE (IF table[i].hasInet
          THEN [k \in 1..Len(table[i].inet) |->
                   [ifname |-> table[i].name, addr |-> table[i].inet[k].addr,
                    netmask |-> table[i].inet[k].netmask]]
          ELSE <<>>) \o Flat(table, i + 1)

Missing(e) == e.addr.isNone \/ e.netmask.isNone

Malformed(e) == ~Missing(e) /\ (~AtonOk(e.addr.s) \/ ~AtonOk(e.netmask.s))

EntryMatches(e, target) ==
    /\ ~Missing(e)
    /\ ~Malformed(e)
    /\ sameSubnet(target, iptoint(e.addr.s), iptoint(e.netmask.s))

EntryRecord(e) ==
    [ifname |-> Str(e.ifname),
     server |-> Str(inttoip(iptoint(e.addr.s))),
     net |-> Str(inttoip(And(iptoint(e.addr.s), iptoint(e.netmask.s)))),
     mask |-> Str(inttoip(iptoint(e.netmask.s)))]

\* a structured enumeration that parsed its target
StructuredRun == ViaNetifaces /\ Queried

Entries == Flat(call.env.table, 1)

Matching ==
    LET es == Entries
        target == iptoint(call.address.s)
    IN  {k \in 1..Len(es) : EntryMatches(es[k], target)}

MalformedAt == LET es == Entries IN {k \in 1..Len(es) : Malformed(es[k])}

\* of the positions bad, one comes before every position of match
Before(bad, match) == bad # {} /\ (match # {} => First(bad) < First(match))

\* a malformed entry is met before any match
MalformedFirst == Before(MalformedAt, Matching)

(***************************************************************************)
(* C1.  Whenever get_iface_config returns a record, through either         *)
(* enumerator, net == server & mask and net == target & mask for the       *)
(* address passed to the call.                                             *)
(***************************************************************************)
C1_RecordProvesMembership ==
    (Called /\ call.out.kind = "return" /\ call.out.found) =>
        LET c == call.out.config
            server == iptoint(c.server.s)
            net == iptoint(c.net.s)
            mask == iptoint(c.mask.s)
            target == iptoint(call.address.s)
        IN  /\ SameInt(net, And(server, mask))
            /\ SameInt(net, And(target, mask))

\* a record returned by the textual enumerator for the target 10.0.0.5 given
\* as "10.5", its server address not the network address
C1_Witness ==
    /\ ViaIproute
    /\ call.out.found
    /\ call.address = Str(T2)
    /\ call.out.config.server # call.out.config.net

(***************************************************************************)
(* C2.  The structured enumerator returns the record of the first entry,   *)
(* in interface order and then address-list order, whose masked address    *)
(* equals the masked target, and returns None, without raising, exactly    *)
(* when no entry with both address and netmask present matches.            *)
(***************************************************************************)
\* the claim as made: fails on a table with a malformed address or netmask
C2_AsClaimed ==
    StructuredRun =>
        LET match == Matching
        IN  /\ match # {} => call.out = Ret(EntryRecord(Entries[First(match)]))
            /\ match = {} => call.out = RetNone

\* C2 as amended: the first match is returned unless a malformed entry (both
\* fields present, one not an address) comes before it, in which case the
\* call raises; None is returned exactly when nothing matches and nothing
\* is malformed
C2_FirstMatchUnlessMalformed ==
    StructuredRun =>
        LET match == Matching
            bad == MalformedAt
        IN  /\ (match # {} /\ ~Before(bad, match)) =>
                   call.out = Ret(EntryRecord(Entries[First(match)]))
            /\ Before(bad, match) => call.out.kind = "raise"
            /\ call.out = RetNone <=> (match = {} /\ bad = {})

\* two entries match and the record is that of the first
C2_Witness ==
    /\ StructuredRun
    /\ Cardinality(Matching) > 1
    /\ call.out.found
    /\ EntryRecord(Entries[1]) # EntryRecord(Entries[2])

(***************************************************************************)
(* C3.  get_iface_config with an empty or absent address returns None and  *)
(* enters neither enumerator: no subprocess, no query of the interfaces.   *)
(***************************************************************************)
C3_EmptyAddressShortCircuits ==
    (Called /\ ~Truthy(call.address)) =>
        /\ call.out = RetNone
        /\ call.invoked = <<>>
        /\ call.os = <<>>

\* the empty string passed on a host without netifaces
C3_Witness ==
    /\ Called
    /\ call.address = Str(<<>>)
    /\ netifaces = "None"

(***************************************************************************)
(* C4.  For a non-empty address a call enters exactly one enumerator: the  *)
(* structured one where netifaces is available, the textual one otherwise, *)
(* whatever that enumerator's outcome.                                     *)
(***************************************************************************)
C4_ExactlyOneStrategy ==
    (Called /\ Truthy(call.address)) =>
        call.invoked = IF installed
                       THEN <<"_netifaces_get_iface_config">>
                       ELSE <<"_iproute_get_iface_config">>

\* the structured enumerator found nothing and the textual one was not tried
C4_Witness ==
    /\ StructuredRun
    /\ call.out = RetNone
    /\ call.env.table # NoTable

(***************************************************************************)
(* C6.  Where netifaces is absent, its absence is never an error for the   *)
(* caller, on any platform: the module loads and get_iface_config resolves *)
(* through the textual enumerator.                                         *)
(***************************************************************************)
Probed == modstate # "unloaded"

\* the claim as made: fails on Darwin, where the import raises ImportError
C6_AsClaimed == (Probed /\ ~installed) => modstate = "loaded"

\* C6 as amended: the module loads, with netifaces None and the textual
\* enumerator used, on a platform that has os.uname() and is not Darwin; on
\* Darwin the import raises ImportError, and where os.uname is missing
\* AttributeError
C6_FallbackExceptDarwin ==
    (Probed /\ ~installed) =>
        /\ platform = "Linux" => (modstate = "loaded" /\ netifaces = "None")
        /\ platform = "Darwin" => modstate = "ImportError"
        /\ platform = "Windows" => modstate = "AttributeError"
        /\ (Called /\ Truthy(call.address)) =>
               call.invoked = <<"_iproute_get_iface_config">>

\* a record resolved by the textual enumerator on a Linux host without
\* netifaces
C6_Witness ==
    /\ ~installed
    /\ platform = "Linux"
    /\ ViaIproute
    /\ call.out.found

(***************************************************************************)
(* C9.  In the structured enumerator an entry with a missing address, a    *)
(* missing netmask or a malformed one is skipped, and a later matching     *)
(* entry is still returned.                                                *)
(***************************************************************************)
Defective ==
    LET es == Entries IN {k \in 1..Len(es) : Missing(es[k]) \/ Malformed(es[k])}

\* the claim as made: fails when the entry before the match is malformed
C9_AsClaimed ==
    StructuredRun =>
        LET match == Matching
        IN  (match # {} /\ Defective # {}) =>
                call.out = Ret(EntryRecord(Entries[First(match)]))

MissingAt == LET es == Entries IN {k \in 1..Len(es) : Missing(es[k])}

\* C9 as amended: an entry with a missing address or netmask is skipped and
\* a later match is returned; a malformed address or netmask met before any
\* match raises socket.error and ends the enumeration
C9_MissingSkippedMalformedRaises ==
    StructuredRun =>
        LET match == Matching
            bad == MalformedAt
        IN  /\ (MissingAt # {} /\ match # {} /\ ~Before(bad, match)) =>
                   call.out = Ret(EntryRecord(Entries[First(match)]))
            /\ Before(bad, match) => call.out = Raise("socket.error")

\* an entry without netmask or address comes first, the match after it
C9_Witness ==
    /\ StructuredRun
    /\ call.out.found
    /\ MissingAt # {}
    /\ First(MissingAt) < First(Matching)

(***************************************************************************)
(* The textual enumeration, as the specification describes it.             *)
(***************************************************************************)
\* a textual enumeration that parsed its target and got the command's output
TextualRun == ViaIproute /\ Queried /\ call.env.output.status = "ok"

Lines == call.env.output.lines

IsInetLine(l) == l # <<>> /\ l[1] = InetWord

IsHeaderLine(l) == l # <<>> /\ EndsWith(l[1], ":") /\ Len(l) > 1

\* address/prefixLength with a dotted address and a prefix length in [0, 32]
WellFormedCidr(tok) ==
    LET parts == Split(tok, "/")
    IN  /\ Len(parts) = 2
        /\ AtonOk(parts[1])
        /\ AllDigits(parts[2])
        /\ DecValue(parts[2]) <= 32

MalformedInet(l) == IsInetLine(l) /\ (Len(l) < 2 \/ ~WellFormedCidr(l[2]))

CidrAddr(l) == iptoint(Split(l[2], "/")[1])

\* the top prefixLength bits set
PrefixMask(l) ==
    LET n == DecValue(Split(l[2], "/")[2])
    IN  [i \in 1..32 |-> IF i <= n THEN 1 ELSE 0]

LineMatches(l, target) ==
    /\ IsInetLine(l)
    /\ ~MalformedInet(l)
    /\ sameSubnet(target, CidrAddr(l), PrefixMask(l))

MatchingLines ==
    LET target == iptoint(call.address.s)
    IN  {k \in 1..Len(Lines) : LineMatches(Lines[k], target)}

MalformedLines == {k \in 1..Len(Lines) : MalformedInet(Lines[k])}

\* a malformed inet line is met before any matching line
MalformedLineFirst == Before(MalformedLines, MatchingLines)

HeadersBefore(k) == {j \in 1..(k - 1) : IsHeaderLine(Lines[j])}

Last(S) == CHOOSE k \in S : \A j \in S : j <= k

\* the name from the most recent header before line k, None before any
NameAt(k) ==
    IF HeadersBefore(k) = {} THEN None
    ELSE Str(DropLast(Lines[Last(HeadersBefore(k))][2]))

LineRecord(k) ==
    [ifname |-> NameAt(k),
     server |-> Str(inttoip(CidrAddr(Lines[k]))),
     net |-> Str(inttoip(And(CidrAddr(Lines[k]), PrefixMask(Lines[k])))),
     mask |-> Str(inttoip(PrefixMask(Lines[k])))]

ParseErrors == {"IndexError", "ValueError", "socket.error"}

(***************************************************************************)
(* C5.  In the textual enumerator, any line whose first token is inet and  *)
(* whose second token is not a well-formed address/prefixLength makes the  *)
(* whole call fail, even if a matching stanza appears earlier or later.    *)
(***************************************************************************)
\* the claim as made: fails when a matching line comes before the bad one
C5_AsClaimed ==
    (TextualRun /\ MalformedLines # {}) => call.out.kind = "raise"

\* C5 as amended: a malformed inet line makes the call fail when no matching
\* line comes before it, also when one comes after it (so a call that did
\* not fail met none before its match); a malformed line after the first
\* matching line is never read (so a parse error where there is a match
\* comes from a malformed line before it)
C5_MalformedBeforeMatchFails ==
    TextualRun =>
        LET match == MatchingLines
            bad == MalformedLines
        IN  /\ call.out.kind # "raise" => ~Before(bad, match)
            /\ (call.out.kind = "raise" /\ call.out.exc \in ParseErrors) =>
                   (match = {} \/ Before(bad, match))

\* a malformed inet line, then a matching one: the call fails on the first
C5_Witness ==
    /\ TextualRun
    /\ call.env.output.type = "str"
    /\ MalformedLineFirst
    /\ MatchingLines # {}
    /\ call.out.kind = "raise"
    /\ call.out.exc \in ParseErrors

(***************************************************************************)
(* C7.  The textual enumerator returns the record of the first inet line   *)
(* whose address and prefix mask (prefix length in [0, 32]) put the target *)
(* in its subnet, with the name from the most recent header (second token, *)
(* colon stripped), and None when no inet line matches; blank and other    *)
(* lines change neither name nor result.                                   *)
(***************************************************************************)
\* the claim, on output all of whose inet lines are well formed: fails where
\* check_output returns bytes, bytes.rstrip("\n") raising TypeError
C7_AsClaimed ==
    (TextualRun /\ MalformedLines = {}) =>
        LET match == MatchingLines
        IN  /\ match # {} => call.out = Ret(LineRecord(First(match)))
            /\ match = {} => call.out = RetNone

\* the command answered bytes holding a matching stanza, and the call raised
C7_Witness ==
    /\ TextualRun
    /\ call.env.output.type = "bytes"
    /\ MalformedLines = {}
    /\ MatchingLines # {}
    /\ call.out = Raise("TypeError")

\* where check_output returns str the enumeration is as C7 says
C7_HoldsOnText ==
    (TextualRun /\ MalformedLines = {} /\ call.env.output.type = "str") =>
        LET match == MatchingLines
        IN  /\ match # {} => call.out = Ret(LineRecord(First(match)))
            /\ match = {} => call.out = RetNone

(***************************************************************************)
(* C8.  iptoint(inttoip(x)) == x for every integer x in [0, 2^32), both    *)
(* conversions in network (big-endian) byte order, and inttoip succeeds    *)
(* for every such x.                                                       *)
(***************************************************************************)
InRange(x) == Len(Norm(x)) <= 32

C8_RoundTrip ==
    InRange(codec.ipval) =>
        /\ codec.stage \notin {"struct.error", "socket.error"}
        /\ codec.stage \in {"str", "back"} =>
               Split(codec.ipstr, ".")[1] =
                   DecString(ValueOfBits(Pad(Norm(codec.ipval), 32), 1, 8))
        /\ codec.stage = "back" => SameInt(codec.back, codec.ipval)

\* 0x800001ff went to "128.0.1.255" and came back
C8_Witness ==
    /\ codec.stage = "back"
    /\ codec.ipstr = Dotted(<<128, 0, 1, 255>>)
    /\ SameInt(codec.back, codec.ipval)

(***************************************************************************)
(* C10.  For the same target and the same host configuration (interfaces   *)
(* in the same order, the same addresses and contiguous masks, rendered as *)
(* header and inet addr/prefix lines for the textual path) the two         *)
(* enumerators return identical results.                                   *)
(***************************************************************************)
\* the claim: fails where check_output returns bytes, the textual enumerator
\* then raising TypeError whatever the structured one returns
C10_AsClaimed ==
    both.stage = "second" => both.viaIproute = both.viaNetifaces

\* the structured enumerator found a record, the textual one raised
C10_Witness ==
    /\ both.stage = "second"
    /\ both.type = "bytes"
    /\ both.viaNetifaces.found
    /\ both.viaIproute = Raise("TypeError")

\* where check_output returns str the two results are the same
C10_HoldsOnText ==
    (both.stage = "second" /\ both.type = "str") =>
        both.viaIproute = both.viaNetifaces

====
